---- MODULE Spec2Model ----
(***************************************************************************)
(* Model of backend/app.py: the SQLite conversation store, the chat-style  *)
(* branch of the /api/ask handler, the chart-directive pipeline, the query *)
(* normaliser, the exploration engine, the casual classifier and the chart *)
(* data formatter.                                                         *)
(*                                                                         *)
(* Texts whose length matters (questions, titles) are records [s, n]: the  *)
(* prefix of length n of the string s.  Python's t[:k] is Truncate(t, k).  *)
(***************************************************************************)
EXTENDS Integers, Sequences, FiniteSets, TLC

VARIABLES db, ret, pc, req, served, md, out, qtext, sent

vars == <<db, ret, pc, req, served, md, out, qtext, sent>>

(***************************************************************************)
(* Bounds of the model.                                                    *)
(***************************************************************************)
MaxConvs == 2
MaxMsgs == 2
MaxSums == 1
MaxRequests == 2
MaxSegs == 2
MaxQLen == 4
SeedTurns == 5
MaxParts == 4
MaxProbes == 2
MaxCollections == 2
MaxQuestionLen == 5
MaxPad == 2
MaxColumns == 3

(***************************************************************************)
(* Generic helpers.                                                        *)
(***************************************************************************)
NULL == "NULL"

NullText == [s |-> "NULL", n |-> -1]

NoConversation == -1

EmptyId == 0

UnknownId == 99

Min(a, b) == IF a < b THEN a ELSE b

Range(s) == {s[i] : i \in 1..Len(s)}

Head_n(s, n) == SubSeq(s, 1, Min(n, Len(s)))

Tail_n(s, n) == SubSeq(s, Len(s) - Min(n, Len(s)) + 1, Len(s))

Text(s, n) == [s |-> s, n |-> n]

Empty == Text("", 0)

Truncate(t, k) == IF t.n <= 0 THEN t ELSE Text(t.s, Min(t.n, k))

\* the text t between l leading and r trailing blanks
Padded(t, l, r) == [s |-> t.s, n |-> t.n + l + r, lpad |-> l, rpad |-> r]

Strip(t) ==
    IF t.s = " " THEN Empty
    ELSE IF "lpad" \in DOMAIN t THEN Text(t.s, t.n - t.lpad - t.rpad)
    ELSE t

Truthy(t) == t # NullText /\ t.n > 0

TruthyStr(s) == s # NULL /\ s # ""

(***************************************************************************)
(* Program constants.                                                      *)
(***************************************************************************)
DefaultTitle == Text("New conversation", 16)

TitleHintLen == 80

(***************************************************************************)
(* The SQLite database: three tables kept in insertion order, which is the *)
(* order of created_at, and the number of ids handed out per table (ids    *)
(* are fresh, so they are numbered).  A conversation's updated_at is the   *)
(* timestamp of the message whose insert touched it last, so it is kept as *)
(* that message's id, and as 0 while it still equals created_at.           *)
(***************************************************************************)
EmptyDb ==
    [conversation |-> <<>>, message |-> <<>>, summary |-> <<>>,
     nconv |-> 0, nmsg |-> 0, nsum |-> 0]

ConvIdsOf(d) == {d.conversation[i].id : i \in 1..Len(d.conversation)}

ConvRow(d, cid) ==
    CHOOSE r \in Range(d.conversation) : r.id = cid

create_conversation(d, title, database_name) ==
    LET cid == d.nconv + 1
        row == [id |-> cid,
                title |-> IF Truthy(title) THEN title ELSE DefaultTitle,
                database_name |-> database_name,
                updated_at |-> 0]
    IN  [d EXCEPT !.conversation = Append(@, row), !.nconv = cid]

BackfillTitleAlways(row, cid, role, title_hint) ==
    IF role = "user" /\ Truthy(title_hint) /\ row.id = cid
    THEN [row EXCEPT !.title = Truncate(title_hint, TitleHintLen)]
    ELSE row

BackfillTitle(row, cid, role, title_hint) ==
    IF /\ role = "user"
       /\ Truthy(title_hint)
       /\ row.id = cid
       /\ (row.title = NullText \/ row.title = DefaultTitle)
    THEN [row EXCEPT !.title = Truncate(title_hint, TitleHintLen)]
    ELSE row

TouchConversation(row, cid, ts, database_name) ==
    IF row.id = cid
    THEN [row EXCEPT !.updated_at = ts, !.database_name = database_name]
    ELSE row

add_message(d, cid, role, content, charts, sql_meta, title_hint, database_name, facts) ==
    LET mid == d.nmsg + 1
        ts == mid
        row == [id |-> mid, conversation_id |-> cid, role |-> role,
                content_markdown |-> IF Truthy(content) THEN content ELSE Empty,
                charts |-> charts, sql_meta |-> sql_meta,
                database_name |-> database_name, facts |-> facts]
        convs == [i \in 1..Len(d.conversation) |->
                    TouchConversation(
                        BackfillTitle(d.conversation[i], cid, role, title_hint),
                        cid, ts, database_name)]
    IN  [d EXCEPT !.message = Append(@, row), !.conversation = convs,
                  !.nmsg = mid]

MessagesOf(d, cid) == SelectSeq(d.message, LAMBDA m : m.conversation_id = cid)

SummariesOf(d, cid) == SelectSeq(d.summary, LAMBDA s : s.conversation_id = cid)

get_history(d, cid) == MessagesOf(d, cid)

get_message_count(d, cid) == Len(MessagesOf(d, cid))

get_newest_messages(d, cid, limit) == Tail_n(MessagesOf(d, cid), limit)

get_oldest_messages(d, cid, limit) == Head_n(MessagesOf(d, cid), limit)

get_summaries(d, cid) == SummariesOf(d, cid)

delete_messages_by_ids(d, cid, ids) ==
    [d EXCEPT !.message =
        SelectSeq(@, LAMBDA m : ~(m.conversation_id = cid /\ m.id \in ids))]

save_summary(d, cid, content) ==
    LET sid == d.nsum + 1
        row == [id |-> sid, conversation_id |-> cid, content |-> content]
    IN  [d EXCEPT !.summary = Append(@, row), !.nsum = sid]

delete_conversation_keep_summaries(d, cid) ==
    [d EXCEPT !.message = SelectSeq(@, LAMBDA m : m.conversation_id # cid),
              !.conversation = SelectSeq(@, LAMBDA c : c.id # cid)]

delete_conversation(d, cid) ==
    [d EXCEPT !.message = SelectSeq(@, LAMBDA m : m.conversation_id # cid),
              !.summary = SelectSeq(@, LAMBDA s : s.conversation_id # cid),
              !.conversation = SelectSeq(@, LAMBDA c : c.id # cid)]

Reverse(s) == [i \in 1..Len(s) |-> s[Len(s) + 1 - i]]

PastFactRowsOfDataset(d, database_name, limit, cid) ==
    Head_n(Reverse(SelectSeq(d.message,
        LAMBDA m : /\ m.database_name = database_name
                   /\ m.role = "assistant"
                   /\ m.facts # NULL)), limit)

PastFactRows(d, database_name, limit, cid) ==
    Head_n(Reverse(SelectSeq(d.message,
        LAMBDA m : /\ m.conversation_id = cid
                   /\ m.database_name = database_name
                   /\ m.role = "assistant"
                   /\ m.facts # NULL)), limit)

get_past_facts_of_dataset(d, database_name, limit, cid) ==
    LET rows == IF cid \in {NoConversation, EmptyId}
                THEN PastFactRowsOfDataset(d, database_name, limit, cid)
                ELSE PastFactRows(d, database_name, limit, cid)
        kept == SelectSeq(rows, LAMBDA m : TruthyStr(m.facts))
    IN  [i \in 1..Len(kept) |->
           [prefix |-> "Previous exploration: ", facts |-> kept[i].facts]]

get_past_facts(d, database_name, limit, cid) ==
    IF ~TruthyStr(database_name) THEN <<>>
    ELSE IF cid \in {NoConversation, EmptyId} THEN <<>>
    ELSE LET rows == PastFactRows(d, database_name, limit, cid)
             kept == SelectSeq(rows, LAMBDA m : TruthyStr(m.facts))
         IN  [i \in 1..Len(kept) |->
                [prefix |-> "Previous exploration: ", facts |-> kept[i].facts]]

(***************************************************************************)
(* Query texts are sequences of tokens: a fence, a dialect tag, a quote    *)
(* character, a keyword, a number, ';', one blank, or another word.  Word  *)
(* tokens that touch form one longer word, which is what \b looks at.      *)
(***************************************************************************)
Fence == "FENCE"

Blank == " "

IsDigits(t) == t \in {"6", "10", "20", "50", "100"}

IsWordTok(t) ==
    \/ t \in {"sql", "noql", "SQL", "SELECT", "select", "LIMIT", "limit", "x"}
    \/ t \in {"a", "from", "FROM", "t"}
    \/ IsDigits(t)

Lower(t) ==
    CASE t = "SELECT" -> "select"
      [] t = "LIMIT" -> "limit"
      [] t = "SQL" -> "sql"
      [] t = "FROM" -> "from"
      [] t = "CHART" -> "chart"
      [] t = "{BAR}" -> "{bar}"
      [] OTHER -> t

RECURSIVE LStrip(_)
LStrip(s) == IF s # <<>> /\ Head(s) = Blank THEN LStrip(Tail(s)) ELSE s

RECURSIVE RStrip(_)
RStrip(s) ==
    IF s # <<>> /\ s[Len(s)] = Blank THEN RStrip(SubSeq(s, 1, Len(s) - 1)) ELSE s

StripBlanks(s) == RStrip(LStrip(s))

RECURSIVE LStripFences(_)
LStripFences(s) == IF s # <<>> /\ Head(s) = Fence THEN LStripFences(Tail(s)) ELSE s

DropTag(s) ==
    IF s # <<>> /\ Lower(Head(s)) = "noql" THEN LStrip(Tail(s))
    ELSE IF s # <<>> /\ Lower(Head(s)) = "sql" THEN LStrip(Tail(s))
    ELSE s

IsQuote(t) == t \in {"DQUOTE", "SQUOTE"}

_strip_query_fences(q) ==
    LET s0 == StripBlanks(q)
        s1 == IF s0 # <<>> /\ Head(s0) = Fence THEN DropTag(LStripFences(s0)) ELSE s0
        s2 == StripBlanks(SelectSeq(s1, LAMBDA t : t # Fence))
    IN  IF Len(s2) >= 2 /\ IsQuote(s2[1]) /\ s2[Len(s2)] = s2[1]
        THEN StripBlanks(SubSeq(s2, 2, Len(s2) - 1))
        ELSE s2

\* \b before position i / after position i of s
BoundaryBefore(s, i) == i = 1 \/ ~IsWordTok(s[i - 1])

BoundaryAfter(s, i) == i = Len(s) \/ ~IsWordTok(s[i + 1])

RECURSIVE SkipBlanks(_, _)
SkipBlanks(s, i) == IF i <= Len(s) /\ s[i] = Blank THEN SkipBlanks(s, i + 1) ELSE i

RECURSIVE SkipDigits(_, _)
SkipDigits(s, i) == IF i <= Len(s) /\ IsDigits(s[i]) THEN SkipDigits(s, i + 1) ELSE i

\* re.search(r"\bLIMIT\s+\d+\b", q, re.IGNORECASE) matching at token i
LimitAt(s, i) ==
    /\ Lower(s[i]) = "limit"
    /\ BoundaryBefore(s, i)
    /\ LET j == SkipBlanks(s, i + 1)
           k == SkipDigits(s, j)
       IN  /\ j > i + 1
           /\ k > j
           /\ (k > Len(s) \/ ~IsWordTok(s[k]))

HasLimit(s) == \E i \in 1..Len(s) : LimitAt(s, i)

\* re.match(r"^\s*SELECT\b", q, re.IGNORECASE)
StartsWithSelect(s) ==
    LET t == LStrip(s)
    IN  t # <<>> /\ Lower(t[1]) = "select" /\ BoundaryAfter(t, 1)

ensure_limit_unless_semicolon(query, default_limit) ==
    LET q == StripBlanks(query)
    IN  IF ~HasLimit(q) /\ StartsWithSelect(q) /\ q[Len(q)] # ";"
        THEN q \o <<Blank, "LIMIT", Blank, ToString(default_limit)>>
        ELSE query

ensure_limit_always(query, default_limit) ==
    LET q0 == StripBlanks(query)
        has_semicolon == q0 # <<>> /\ q0[Len(q0)] = ";"
        q == IF has_semicolon THEN SubSeq(q0, 1, Len(q0) - 1) ELSE q0
    IN  IF StartsWithSelect(q)
        THEN q \o <<Blank, "LIMIT", Blank, ToString(default_limit)>>
               \o (IF has_semicolon THEN <<";">> ELSE <<>>)
        ELSE query

ensure_limit(query, default_limit) ==
    LET q0 == StripBlanks(query)
        has_semicolon == q0 # <<>> /\ q0[Len(q0)] = ";"
        q == IF has_semicolon THEN SubSeq(q0, 1, Len(q0) - 1) ELSE q0
    IN  IF HasLimit(q) THEN query
        ELSE IF StartsWithSelect(q)
             THEN q \o <<Blank, "LIMIT", Blank, ToString(default_limit)>>
                    \o (IF has_semicolon THEN <<";">> ELSE <<>>)
             ELSE query

normalize_query(query, limit) == ensure_limit(_strip_query_fences(query), limit)

(***************************************************************************)
(* Chart data.  A cell is a string: a number ("120"), None, or a text.     *)
(* Python's item[k] is item[k + 1] here.                                   *)
(***************************************************************************)
NumericCells == {"0", "1", "2", "3", "80", "120"}

CellValue(c) ==
    CASE c = "1" -> 1 [] c = "2" -> 2 [] c = "3" -> 3
      [] c = "80" -> 80 [] c = "120" -> 120 [] OTHER -> 0

safe_float(c) == CellValue(c)

IsNumberLike(c) == c \in NumericCells

IsNumericOrNone(c) == c \in NumericCells \cup {"None"}

PieCap == 6
BarCap == 20
LineCap == 50
ScatterCap == 100
TableCap == 50
DefaultQueryCap == 50
DefaultFormatCap == 20
ProbeCap == 20

default_limits(chart_type) ==
    CASE chart_type = "pie" -> PieCap
      [] chart_type = "bar" -> BarCap
      [] chart_type = "line" -> LineCap
      [] chart_type = "scatter" -> ScatterCap
      [] chart_type = "table" -> TableCap
      [] OTHER -> DefaultQueryCap

max_items(chart_type) ==
    CASE chart_type = "pie" -> PieCap
      [] chart_type = "bar" -> BarCap
      [] chart_type = "line" -> LineCap
      [] chart_type = "scatter" -> ScatterCap
      [] chart_type = "table" -> TableCap
      [] OTHER -> DefaultFormatCap

CleanPieLabel(col) ==
    CASE col = "EnglishSpeaker" -> "English"
      [] col = "Population" -> ""
      [] OTHER -> col

FormatScatter(data) ==
    LET kept == SelectSeq(data, LAMBDA item : Len(item) >= 3)
    IN  [i \in 1..Len(kept) |->
            [label |-> kept[i][1], x |-> safe_float(kept[i][2]),
             y |-> safe_float(kept[i][3]), value |-> 0]]

IsPivotedPie(data, chart_type, columns) ==
    /\ chart_type = "pie"
    /\ Len(data) = 1
    /\ Len(columns) >= 2
    /\ \A k \in 1..Len(data[1]) : IsNumericOrNone(data[1][k])
    /\ Len(data[1]) = Len(columns)

FormatPivotedPieKeepAll(row, columns) ==
    [k \in 1..Len(columns) |->
        [label |-> CleanPieLabel(columns[k]), value |-> safe_float(row[k])]]

FormatPivotedPie(row, columns) ==
    LET idx == SelectSeq([k \in 1..Len(columns) |-> k],
                         LAMBDA k : row[k] # "None" /\ safe_float(row[k]) > 0)
    IN  [i \in 1..Len(idx) |->
            [label |-> CleanPieLabel(columns[idx[i]]), value |-> safe_float(row[idx[i]])]]

FormatRow(item, label_col_idx, value_col_idx) ==
    LET label0 == IF label_col_idx < Len(item) THEN item[label_col_idx + 1] ELSE item[1]
        value == IF value_col_idx >= 0 /\ value_col_idx < Len(item)
                 THEN safe_float(item[value_col_idx + 1])
                 ELSE IF value_col_idx = -1 THEN safe_float(item[Len(item)])
                 ELSE safe_float(item[2])
        arrow == /\ Len(item) >= 3
                 /\ IsNumberLike(item[Len(item)])
                 /\ ~IsNumberLike(item[1])
                 /\ ~IsNumberLike(item[2])
    IN  [label |-> IF arrow THEN <<item[1], "->", item[2]>> ELSE <<label0>>,
         value |-> value]

FormatGeneral(data, label_col_idx, value_col_idx) ==
    LET kept == SelectSeq(data, LAMBDA item : Len(item) >= 2)
    IN  [i \in 1..Len(kept) |-> FormatRow(kept[i], label_col_idx, value_col_idx)]

\* label_col_idx and value_col_idx are get_best_column_index's answers (a
\* completion call), 0 and -1 when there are no columns.
format_data_for_chart_type(data0, chart_type, columns, label_col_idx, value_col_idx) ==
    IF data0 = <<>> THEN <<>>
    ELSE LET data == Head_n(data0, max_items(chart_type))
         IN  IF chart_type = "scatter" THEN FormatScatter(data)
             ELSE IF IsPivotedPie(data, chart_type, columns)
                  THEN FormatPivotedPie(data[1], columns)
                  ELSE FormatGeneral(data,
                          IF columns = <<>> THEN 0 ELSE label_col_idx,
                          IF columns = <<>> THEN -1 ELSE value_col_idx)

(***************************************************************************)
(* Markdown is a sequence of tokens too: a fence, the word chart after it, *)
(* a blank, a directive body (one token per JSON text), plain text, or a   *)
(* chart placeholder.                                                      *)
(***************************************************************************)
IsTag(t) == Lower(t) = "chart"

PlaceholderTok(chart_id) == "{{chart:chart_" \o ToString(chart_id) \o "}}"

RECURSIVE NextFence(_, _)
NextFence(m, i) ==
    IF i > Len(m) THEN 0 ELSE IF m[i] = Fence THEN i ELSE NextFence(m, i + 1)

\* re.findall(r'```chart\s*([\s\S]*?)```', markdown, re.DOTALL | re.IGNORECASE)
RECURSIVE FindAllFrom(_, _)
FindAllFrom(m, p) ==
    IF p + 1 > Len(m) THEN <<>>
    ELSE IF m[p] = Fence /\ IsTag(m[p + 1])
         THEN LET q == SkipBlanks(m, p + 2)
                  e == NextFence(m, q)
              IN  IF e = 0 THEN FindAllFrom(m, p + 1)
                  ELSE <<SubSeq(m, q, e - 1)>> \o FindAllFrom(m, e + 1)
         ELSE FindAllFrom(m, p + 1)

FindAll(m) == FindAllFrom(m, 1)

SameFolded(a, b) ==
    Len(a) = Len(b) /\ \A i \in 1..Len(a) : Lower(a[i]) = Lower(b[i])

\* where f"```chart\s*{re.escape(block)}\s*```" matches from p: the index of
\* its closing fence, or 0
MatchEnd(m, p, block) ==
    IF p + 1 > Len(m) \/ m[p] # Fence \/ ~IsTag(m[p + 1]) THEN 0
    ELSE LET q == SkipBlanks(m, p + 2)
             r == SkipBlanks(m, q + Len(block))
         IN  IF /\ q + Len(block) - 1 <= Len(m)
                /\ SameFolded(SubSeq(m, q, q + Len(block) - 1), block)
                /\ r <= Len(m)
                /\ m[r] = Fence
             THEN r ELSE 0

\* re.sub(original_block, repl, modified_markdown, count=1, ...)
SubFirst(m, block, repl) ==
    LET hits == {p \in 1..Len(m) : MatchEnd(m, p, block) # 0}
    IN  IF hits = {} THEN m
        ELSE LET p == CHOOSE x \in hits : \A y \in hits : x <= y
             IN  SubSeq(m, 1, p - 1) \o repl \o SubSeq(m, MatchEnd(m, p, block) + 1, Len(m))

(***************************************************************************)
(* Directive bodies and their JSON values.                                 *)
(***************************************************************************)
UnwrapBraces(block_text) ==
    IF block_text = <<"{{pie}}">> THEN <<"{pie}">> ELSE block_text

JsonDicts == {"{bar}", "{BAR}", "{pie}", "{scatter}"}

JsonOthers == {"[1]"}

\* json.loads: "dict", "other" (valid JSON that is no object) or "error"
JsonKind(block_text) ==
    IF Len(block_text) # 1 THEN "error"
    ELSE IF block_text[1] \in JsonDicts THEN "dict"
    ELSE IF block_text[1] \in JsonOthers THEN "other"
    ELSE "error"

\* the object: {"BAR"} has the keys in upper case, so every .get() misses
JsonValue(tok) ==
    CASE tok = "{bar}" -> [type |-> "bar", title |-> Text("Contacts by status", 18),
                           question |-> Text("contacts by status", 18)]
      [] tok = "{pie}" -> [type |-> "pie", title |-> Text("Languages", 9),
                           question |-> Text("chart", 5)]
      [] tok = "{scatter}" -> [type |-> "scatter", title |-> Text("Spread", 6),
                               question |-> Text("spread of deals", 15)]
      [] OTHER -> [type |-> "bar", title |-> Text("Chart", 5), question |-> NullText]

IsGenericFocus(t) == t.n > 0 /\ t.s \in {"chart", "Chart", "charts", "visualization"}

AnalysisTitleLen == 50

NoChart == [title |-> Empty, chart_type |-> "none", data |-> <<>>, query |-> <<>>]

build_chart_keep_single(cfg, actual_question, oc) ==
    [title |-> cfg.title, chart_type |-> cfg.type,
     data |-> IF oc.rows = <<>> THEN <<>>
              ELSE format_data_for_chart_type(oc.rows, cfg.type, oc.columns,
                                              oc.label_col_idx, oc.value_col_idx),
     query |-> normalize_query(oc.query, DefaultQueryCap)]

\* oc: what the collaborators answer for this directive: the generated query
\* text (or "raise"), the rows and columns the query service returns, the
\* column indexes the completion picks, and whether formatting raises.
build_chart_from_cfg(cfg, actual_question, oc) ==
    LET chart_type == cfg.type
        focus0 == IF Truthy(cfg.question) THEN cfg.question ELSE cfg.title
        generic == IsGenericFocus(focus0) /\ Truthy(actual_question)
        title == IF ~generic THEN cfg.title
                 ELSE IF actual_question.n > AnalysisTitleLen
                      THEN Text("Analysis: " \o actual_question.s, AnalysisTitleLen + 13)
                      ELSE actual_question
        query == normalize_query(oc.query, default_limits(chart_type))
        executed == normalize_query(query, DefaultQueryCap)
        response == oc.rows
    IN  IF Len(response) <= 1
        THEN [title |-> title, chart_type |-> chart_type, data |-> <<>>, query |-> executed]
        ELSE [title |-> title, chart_type |-> chart_type,
              data |-> format_data_for_chart_type(response, chart_type, oc.columns,
                                                  oc.label_col_idx, oc.value_col_idx),
              query |-> executed]

\* one pass of the loop body: what happens to the block
ResolveBlock(block, actual_question, oc) ==
    LET block_text == UnwrapBraces(StripBlanks(block))
        kind == JsonKind(block_text)
    IN  IF kind = "error" THEN [outcome |-> "json_error", chart |-> NoChart]
        ELSE IF kind = "other" \/ oc.raises THEN [outcome |-> "exception", chart |-> NoChart]
        ELSE LET chart_data == build_chart_from_cfg(JsonValue(block_text[1]), actual_question, oc)
             IN  IF Len(chart_data.data) > 0
                 THEN [outcome |-> "chart", chart |-> chart_data]
                 ELSE [outcome |-> "empty", chart |-> chart_data]

OnChart(modified_markdown, block, chart_id) ==
    SubFirst(modified_markdown, block, <<PlaceholderTok(chart_id)>>)

OnEmptyChart(modified_markdown, block) == SubFirst(modified_markdown, block, <<>>)

OnJsonErrorKeep(modified_markdown, block) == modified_markdown

OnJsonError(modified_markdown, block) == SubFirst(modified_markdown, block, <<>>)

OnException(modified_markdown, block) == SubFirst(modified_markdown, block, <<>>)

RECURSIVE ExtractLoopAbort(_, _, _, _, _, _)
ExtractLoopAbort(chart_blocks, idx, actual_question, ocs, charts, modified_markdown) ==
    IF idx > Len(chart_blocks)
    THEN [markdown |-> modified_markdown, charts |-> charts]
    ELSE LET block == chart_blocks[idx]
             r == ResolveBlock(block, actual_question, ocs[idx])
             chart_id == Len(charts) + 1
         IN  IF r.outcome = "chart"
             THEN ExtractLoopAbort(chart_blocks, idx + 1, actual_question, ocs,
                        Append(charts, [id |-> chart_id, block |-> idx,
                                        title |-> r.chart.title,
                                        chart_type |-> r.chart.chart_type,
                                        data |-> r.chart.data]),
                        OnChart(modified_markdown, block, chart_id))
             ELSE [markdown |-> SubFirst(modified_markdown, block, <<>>), charts |-> charts]

RECURSIVE ExtractLoop(_, _, _, _, _, _)
ExtractLoop(chart_blocks, idx, actual_question, ocs, charts, modified_markdown) ==
    IF idx > Len(chart_blocks)
    THEN [markdown |-> modified_markdown, charts |-> charts]
    ELSE LET block == chart_blocks[idx]
             r == ResolveBlock(block, actual_question, ocs[idx])
             chart_id == Len(charts) + 1
         IN  CASE r.outcome = "chart" ->
                    ExtractLoop(chart_blocks, idx + 1, actual_question, ocs,
                        Append(charts, [id |-> chart_id, block |-> idx,
                                        title |-> r.chart.title,
                                        chart_type |-> r.chart.chart_type,
                                        data |-> r.chart.data]),
                        OnChart(modified_markdown, block, chart_id))
               [] r.outcome = "empty" ->
                    ExtractLoop(chart_blocks, idx + 1, actual_question, ocs, charts,
                        OnEmptyChart(modified_markdown, block))
               [] r.outcome = "json_error" ->
                    ExtractLoop(chart_blocks, idx + 1, actual_question, ocs, charts,
                        OnJsonError(modified_markdown, block))
               [] OTHER ->
                    ExtractLoop(chart_blocks, idx + 1, actual_question, ocs, charts,
                        OnException(modified_markdown, block))

\* the chart records carry the index of their directive (idx in the source,
\* where it is only printed) so that their order can be stated
extract_charts_from_markdown(markdown, actual_question, ocs) ==
    ExtractLoop(FindAll(markdown), 1, actual_question, ocs, <<>>, markdown)

(***************************************************************************)
(* The store operations called one at a time (SpecStore).                  *)
(***************************************************************************)
Datasets == {"zigment", "airportdb"}

FactTexts == {"f1", "f2"}

Titles == {Text("New conversation", 16), Text("long question", 90)}

Idle == [op |-> "none"]

NoReq == [stage |-> "none"]

NoOut == [stage |-> "none"]

StoreFrame == UNCHANGED <<pc, req, served, md, out, qtext, sent>>

KnownIds == (1..db.nconv) \cup {UnknownId}

CreateConversation ==
    /\ db.nconv < MaxConvs
    /\ \E title \in Titles \cup {NullText, Empty}, dbn \in {NULL, "zigment"} :
        /\ db' = create_conversation(db, title, dbn)
        /\ ret' = [op |-> "create_conversation", cid |-> db.nconv + 1]
    /\ StoreFrame

AddMessage ==
    /\ db.nmsg < MaxMsgs
    /\ \E cid \in KnownIds, role \in {"user", "assistant"},
          hint \in Titles \cup {NullText}, dbn \in Datasets,
          facts \in FactTexts \cup {NULL} :
        /\ role = "user" => facts = NULL
        /\ role = "assistant" => hint = NullText
        /\ db' = add_message(db, cid, role, Text("body", 4), <<>>, "none", hint, dbn, facts)
        /\ ret' = [op |-> "add_message", cid |-> cid, hint |-> hint]
    /\ StoreFrame

SaveSummary ==
    /\ db.nsum < MaxSums
    /\ \E cid \in KnownIds :
        /\ db' = save_summary(db, cid, "summary")
        /\ ret' = [op |-> "save_summary", cid |-> cid]
    /\ StoreFrame

DeleteMessagesByIds ==
    /\ \E cid \in KnownIds, ids \in SUBSET (1..db.nmsg) :
        /\ ids # {}
        /\ db' = delete_messages_by_ids(db, cid, ids)
        /\ ret' = [op |-> "delete_messages_by_ids", cid |-> cid]
    /\ StoreFrame

DeleteConversation ==
    /\ \E cid \in KnownIds :
        /\ db' = delete_conversation(db, cid)
        /\ ret' = [op |-> "delete_conversation", cid |-> cid]
    /\ StoreFrame

InitStore ==
    /\ db = EmptyDb
    /\ ret = Idle
    /\ pc = "idle"
    /\ req = NoReq
    /\ served = 0
    /\ md = <<>>
    /\ out = NoOut
    /\ qtext = <<>>
    /\ sent = [via |-> "none"]

NextStore ==
    \/ CreateConversation
    \/ AddMessage
    \/ SaveSummary
    \/ DeleteMessagesByIds
    \/ DeleteConversation

SpecStore == InitStore /\ [][NextStore]_vars

(***************************************************************************)
(* The chart pipeline applied to a generated markdown (SpecChart).         *)
(***************************************************************************)
Bodies == {"{bar}", "{BAR}", "{{pie}}", "{scatter}", "{oops", "[1]"}

\* a placeholder of an earlier answer, which the completion read in the
\* history and may repeat in its text
StalePlaceholder == PlaceholderTok(UnknownId)

Segments ==
    {<<"txt">>, <<StalePlaceholder>>, <<Fence, "chart", Fence>>, <<Fence, "txt", Fence>>,
     <<Fence, "CHART", "{bar}", Fence>>,
     <<Fence, "chart", "txt", Blank, "{bar}", Fence>>}
    \cup {<<Fence, "chart", Blank, b, Blank, Fence>> : b \in Bodies}

RECURSIVE Markdowns(_)
Markdowns(n) ==
    IF n = 0 THEN {<<>>}
    ELSE Markdowns(n - 1) \cup {m \o g : m \in Markdowns(n - 1), g \in Segments}

SevenRows ==
    <<<<"a", "1">>, <<"b", "2">>, <<"c", "3">>, <<"d", "1">>, <<"e", "2">>,
      <<"f", "3">>, <<"g", "1">>>>

ResultSets ==
    {[rows |-> <<>>, columns |-> <<>>],
     [rows |-> <<<<"120", "80">>>>, columns |-> <<"english", "spanish">>],
     [rows |-> <<<<"a", "1">>, <<"b", "2">>>>, columns |-> <<"status", "count">>],
     [rows |-> <<<<"a", "1", "2">>, <<"b">>>>, columns |-> <<"status", "x", "y">>],
     [rows |-> <<<<"a">>, <<"b">>>>, columns |-> <<"status">>],
     [rows |-> <<<<"a", "b", "1">>, <<"b", "c", "2">>, <<"c", "a", "3">>>>,
      columns |-> <<"origin", "destination", "count">>],
     [rows |-> SevenRows, columns |-> <<"status", "count">>]}

ChartQuery == <<"SELECT", Blank, "x">>

Outcomes ==
    {[query |-> ChartQuery, rows |-> r.rows, columns |-> r.columns,
      label_col_idx |-> 0, value_col_idx |-> -1, raises |-> FALSE] : r \in ResultSets}
    \cup {[query |-> ChartQuery, rows |-> <<>>, columns |-> <<>>,
           label_col_idx |-> 0, value_col_idx |-> -1, raises |-> TRUE]}

Questions == {Text("show contacts", 13), Text("long question", 90)}

NoCall == CHOOSE oc \in Outcomes : oc.rows = <<>> /\ ~oc.raises

ChartFrame == UNCHANGED <<db, ret, pc, req, served, qtext, sent>>

ExtractCharts ==
    /\ out = NoOut
    /\ \E q \in Questions, ocs \in [1..Len(FindAll(md)) -> Outcomes] :
        \* no collaborator is called for a block that is not a JSON object
        /\ \A i \in 1..Len(FindAll(md)) :
              JsonKind(UnwrapBraces(StripBlanks(FindAll(md)[i]))) # "dict" =>
                  ocs[i] = NoCall
        /\ out' = [stage |-> "done", question |-> q, ocs |-> ocs,
                   rendered |-> extract_charts_from_markdown(md, q, ocs)]
    /\ UNCHANGED md
    /\ ChartFrame

InitChart ==
    /\ md \in Markdowns(MaxSegs)
    /\ out = NoOut
    /\ db = EmptyDb
    /\ ret = Idle
    /\ pc = "idle"
    /\ req = NoReq
    /\ served = 0
    /\ qtext = <<>>
    /\ sent = [via |-> "none"]

NextChart == ExtractCharts

SpecChart == InitChart /\ [][NextChart]_vars

(***************************************************************************)
(* Claims about the chart pipeline.                                        *)
(***************************************************************************)
Done == out.stage = "done"

BlockOutcome(i) == ResolveBlock(FindAll(md)[i], out.question, out.ocs[i]).outcome

\* the directive parses to a configuration and nothing raises while it is resolved
Resolvable(i) == BlockOutcome(i) \in {"chart", "empty"}

StillThere(m, block) == \E p \in 1..Len(m) : MatchEnd(m, p, block) # 0

NoSinglePointCharts ==
    Done => \A k \in 1..Len(out.rendered.charts) : Len(out.rendered.charts[k].data) >= 2

IndependentInOrder ==
    Done =>
        /\ {out.rendered.charts[k].block : k \in 1..Len(out.rendered.charts)}
             = {i \in 1..Len(FindAll(md)) : BlockOutcome(i) = "chart"}
        /\ \A k \in 1..Len(out.rendered.charts), l \in 1..Len(out.rendered.charts) :
             k < l => out.rendered.charts[k].block < out.rendered.charts[l].block

IndependentWitness ==
    /\ Done
    /\ Len(FindAll(md)) = 2
    /\ BlockOutcome(1) \in {"json_error", "exception"}
    /\ Len(out.rendered.charts) = 1
    /\ out.rendered.charts[1].block = 2

(***************************************************************************)
(* Claims about the store.                                                 *)
(***************************************************************************)
FactArgs == (KnownIds \cup {NoConversation, EmptyId}) \X (Datasets \cup {NULL}) \X {1, 5}

AssistantFactsOf(d, cid) ==
    {m.facts : m \in {x \in Range(d.message) :
                        x.conversation_id = cid /\ x.role = "assistant"}}

\* C2: get_past_facts for conversation A returns only facts stored on assistant
\* messages of A (so nothing stored only in another conversation B of the same
\* dataset), and it returns the empty result when the conversation id is absent.
FactsStayInConversation ==
    \A a \in FactArgs :
        LET r == get_past_facts(db, a[2], a[3], a[1])
        IN  /\ a[1] \in {NoConversation, EmptyId} => r = <<>>
            /\ \A i \in 1..Len(r) : r[i].facts \in AssistantFactsOf(db, a[1])

FactsWitness ==
    \E a \in KnownIds, b \in KnownIds, dbn \in Datasets :
        /\ a # b
        /\ get_past_facts(db, dbn, 5, a) # <<>>
        /\ get_past_facts(db, dbn, 5, b) # <<>>
        /\ AssistantFactsOf(db, a) \cap AssistantFactsOf(db, b) = {}
        /\ get_past_facts(db, dbn, 5, NoConversation) = <<>>

\* C4: once a conversation's title differs from the default placeholder, no
\* later operation (an add_message with a title hint included) changes it: a
\* title hint takes effect only while the title is still the placeholder.
TitleSetOnce ==
    [][\A i \in 1..Len(db.conversation) :
         LET r == db.conversation[i]
         IN  r.title # DefaultTitle =>
               \A j \in 1..Len(db'.conversation) :
                  db'.conversation[j].id = r.id => db'.conversation[j].title = r.title]_vars

TitleWitness ==
    /\ ret.op = "add_message"
    /\ Truthy(ret.hint)
    /\ ret.cid \in ConvIdsOf(db)
    /\ ConvRow(db, ret.cid).title # DefaultTitle
    /\ ConvRow(db, ret.cid).title # Truncate(ret.hint, TitleHintLen)
    /\ ConvRow(db, ret.cid).updated_at = db.nmsg

\* C5: delete_conversation(id) leaves no conversation, message or summary with
\* that id, and leaves every row of every other conversation as it was.
DeleteCascadesScoped ==
    [][ret'.op = "delete_conversation" =>
         LET cid == ret'.cid
         IN  /\ cid \notin ConvIdsOf(db')
             /\ MessagesOf(db', cid) = <<>>
             /\ SummariesOf(db', cid) = <<>>
             /\ db'.message = SelectSeq(db.message, LAMBDA m : m.conversation_id # cid)
             /\ db'.summary = SelectSeq(db.summary, LAMBDA x : x.conversation_id # cid)
             /\ db'.conversation = SelectSeq(db.conversation, LAMBDA c : c.id # cid)]_vars

DeleteWitness ==
    /\ ret.op = "delete_conversation"
    /\ ret.cid \in 1..db.nconv
    /\ ret.cid \notin ConvIdsOf(db)
    /\ db.nsum = 1 /\ db.summary = <<>>
    /\ db.nmsg = MaxMsgs /\ Len(db.message) = 1
    /\ db.conversation # <<>>

(***************************************************************************)
(* The callers of run_query, each handed a query text produced by the      *)
(* completion collaborator (SpecQuery).                                    *)
(***************************************************************************)
QueryTokens == {Fence, "sql", "DQUOTE", "SELECT", "select", "LIMIT", "10", ";", Blank, "x"}

RECURSIVE QueryTexts(_)
QueryTexts(n) ==
    IF n = 0 THEN {<<>>}
    ELSE QueryTexts(n - 1)
         \cup {Append(q, t) : q \in {x \in QueryTexts(n - 1) : Len(x) = n - 1},
                              t \in QueryTokens}

ChartTypes == {"pie", "bar", "line", "scatter", "table", "area"}

NoSent == [via |-> "none"]

QueryFrame == UNCHANGED <<db, ret, pc, req, served, md, out, qtext>>

\* what run_query hands to execute_noql_query
run_query(query) == normalize_query(query, DefaultQueryCap)

DeepExplorationProbe ==
    /\ sent = NoSent
    /\ qtext # <<>>
    /\ sent' = [via |-> "deep_exploration", cap |-> ProbeCap,
                text |-> run_query(normalize_query(qtext, ProbeCap))]
    /\ QueryFrame

ChartDirectiveQuery ==
    /\ sent = NoSent
    /\ \E chart_type \in ChartTypes :
        LET limit_val == default_limits(chart_type)
        IN  sent' = [via |-> "chart", cap |-> limit_val,
                     text |-> run_query(normalize_query(qtext, limit_val))]
    /\ QueryFrame

SingleQuestionQuery ==
    /\ sent = NoSent
    /\ sent' = [via |-> "question", cap |-> DefaultQueryCap,
                text |-> run_query(normalize_query(qtext, DefaultQueryCap))]
    /\ QueryFrame

ExecuteQueryApi ==
    /\ sent = NoSent
    /\ sent' = [via |-> "execute_query", cap |-> DefaultQueryCap,
                text |-> run_query(qtext)]
    /\ QueryFrame

InitQuery ==
    /\ qtext \in QueryTexts(MaxQLen)
    /\ sent = NoSent
    /\ db = EmptyDb
    /\ ret = Idle
    /\ pc = "idle"
    /\ req = NoReq
    /\ served = 0
    /\ md = <<>>
    /\ out = NoOut

NextQuery ==
    \/ DeepExplorationProbe
    \/ ChartDirectiveQuery
    \/ SingleQuestionQuery
    \/ ExecuteQueryApi

SpecQuery == InitQuery /\ [][NextQuery]_vars

(***************************************************************************)
(* Claims about the queries handed to the execution collaborator.          *)
(***************************************************************************)
Sent == sent # NoSent

\* C10 as stated: every query text handed over through run_query contains a
\* LIMIT clause with a numeric bound.
EverySentQueryHasLimit == Sent => HasLimit(sent.text)

\* C10: every query text handed over through run_query that starts with
\* SELECT (in any case) contains a LIMIT clause with a numeric bound.
SelectQueriesHaveLimit ==
    Sent =>
        (StartsWithSelect(sent.text) => HasLimit(sent.text))

SelectLimitWitness ==
    /\ Sent
    /\ sent.via = "deep_exploration"
    /\ qtext = <<Fence, "sql", "select", Fence>>
    /\ sent.text = <<"select", Blank, "LIMIT", Blank, "20">>

(***************************************************************************)
(* The chat-style branch of ask_question (text_first without a provided    *)
(* markdown), one request at a time, in the steps of its code (Spec).      *)
(* The two writes of the compaction pass either commit or raise (the       *)
(* handler of line 5535 catches them); the writes that store the turns are *)
(* taken to commit.                                                        *)
(***************************************************************************)
CompactThreshold == 10
CompactBatch == 10
HistoryWindow == 6
SummaryWindow == 3
HistoryContentCap == 1200
PastFactsLimit == 5
CasualTitleLen == 100
ChatTitleLen == 80
CasualMinLen == 3
DeepExploreMinLen == 5

SummaryFallback == "Previous context summarized: (details omitted)."

\* Python's truth value of a conversation id
IdTruthy(cid) == cid \notin {NoConversation, EmptyId}

RECURSIVE Concat(_)
Concat(m) == IF m = <<>> THEN "" ELSE Head(m) \o Concat(Tail(m))

\* a markdown held as a cell of the message table
MarkdownText(m) == Text(Concat(m), Len(m))

is_casual_always_llm(question, llm) ==
    IF ~Truthy(question) \/ ~Truthy(Strip(question)) THEN TRUE
    ELSE llm = "CASUAL"

\* llm: what the classification completion answers, or "raise"
is_casual_conversation(question, llm) ==
    IF ~Truthy(question) \/ ~Truthy(Strip(question)) THEN TRUE
    ELSE IF Strip(question).n < CasualMinLen THEN TRUE
    ELSE llm = "CASUAL"

generate_casual_response(question, database_name) == Text("casual reply", 12)

\* the prior facts each call of explore_data_for_facts hands to the deep
\* exploration prompt: none when the question is too short to explore deeply
PriorFactsPassed(d, question, database_name, cid) ==
    IF Truthy(question) /\ Truthy(Strip(question)) /\ Strip(question).n > DeepExploreMinLen
    THEN <<get_past_facts(d, database_name, PastFactsLimit, cid)>>
    ELSE <<>>

PersistTurnsFactsOnBoth(d, cid0, question, database, title_len, content, charts, mode, facts) ==
    LET d1 == IF IdTruthy(cid0) THEN d
              ELSE create_conversation(d, Truncate(question, title_len), database)
        cid == IF IdTruthy(cid0) THEN cid0 ELSE d.nconv + 1
        d2 == add_message(d1, cid, "user", question, <<>>, "{}", question, database, facts)
        d3 == add_message(d2, cid, "assistant", content, charts, mode, NullText,
                          database, facts)
    IN  [db |-> d3, conversation_id |-> cid]

\* create the conversation when the id is falsy, then store both turns
PersistTurns(d, cid0, question, database, title_len, content, charts, mode, facts) ==
    LET d1 == IF IdTruthy(cid0) THEN d
              ELSE create_conversation(d, Truncate(question, title_len), database)
        cid == IF IdTruthy(cid0) THEN cid0 ELSE d.nconv + 1
        d2 == add_message(d1, cid, "user", question, <<>>, "{}", question, database, NULL)
        d3 == add_message(d2, cid, "assistant", content, charts, mode, NullText,
                          database, facts)
    IN  [db |-> d3, conversation_id |-> cid]

\* summarise the oldest messages and delete them
Compact(d, cid, summary_text) ==
    LET oldest == get_oldest_messages(d, cid, CompactBatch)
    IN  delete_messages_by_ids(save_summary(d, cid, summary_text), cid,
                               {oldest[i].id : i \in 1..Len(oldest)})

HistoryLine(m) ==
    LET content == Strip(m.content_markdown)
    IN  [role |-> m.role,
         content |-> IF content.n > HistoryContentCap
                     THEN Text(content.s \o "...", HistoryContentCap + 3)
                     ELSE content]

HistoryTextAll(d, cid) ==
    LET msgs == get_history(d, cid)
        sums == Tail_n(get_summaries(d, cid), SummaryWindow)
        kept == SelectSeq(msgs, LAMBDA m : Truthy(Strip(m.content_markdown)))
    IN  [i \in 1..Len(sums) |-> [role |-> "SUMMARY", content |-> sums[i].content]]
        \o [i \in 1..Len(kept) |-> HistoryLine(kept[i])]

\* the summaries, then the last messages that have a content
HistoryText(d, cid) ==
    LET msgs == get_history(d, cid)
        last_msgs == IF Len(msgs) > HistoryWindow THEN Tail_n(msgs, HistoryWindow) ELSE msgs
        sums == Tail_n(get_summaries(d, cid), SummaryWindow)
        kept == SelectSeq(last_msgs, LAMBDA m : Truthy(Strip(m.content_markdown)))
    IN  [i \in 1..Len(sums) |-> [role |-> "SUMMARY", content |-> sums[i].content]]
        \o [i \in 1..Len(kept) |-> HistoryLine(kept[i])]

AskQuestions == {Text("hi", 2), Text("sales", 5), Text("show contacts", 13)}

RequestDatasets == {"zigment"}

RequestIds == {NoConversation, EmptyId, UnknownId} \cup (1..db.nconv)

GeneratedMarkdowns ==
    {<<"txt">>, <<"txt", Blank, Fence, "chart", Blank, "{bar}", Blank, Fence, Blank>>}

\* what str(e) gives for a failed completion call
ErrorTexts == {"timeout", "rate limit"}

FallbackMarkdownNoDetails(question, error) ==
    <<"analysis", Blank, question.s, Blank, "error", Blank, "details">>

\* the fallback text of generate_chat_response, with the question and str(e)
FallbackMarkdown(question, error) ==
    <<"analysis", Blank, question.s, Blank, "error", Blank, "details", Blank, error>>

HandlerOutcomes == {oc \in Outcomes : ~oc.raises /\ Len(oc.columns) = 2 /\ Len(oc.rows) <= 2}

HandlerFrame == UNCHANGED <<md, out, qtext, sent>>

\* lines 5398-5422 and 5447-5469: the request is read
AskQuestion ==
    /\ pc = "idle"
    /\ served < MaxRequests
    /\ \E question \in AskQuestions, database \in RequestDatasets \cup {NULL},
          conversation_id \in RequestIds :
        req' = [stage |-> "asked", question |-> question,
                database |-> IF TruthyStr(database) THEN database ELSE "zigment",
                conversation_id |-> conversation_id,
                history_text |-> <<>>, histories |-> <<>>, priors |-> <<>>,
                chat_markdown |-> <<>>, facts_text |-> NULL,
                generation |-> "none", error |-> "",
                before |-> db, total |-> 0, oldest |-> <<>>, summary_text |-> "",
                compaction |-> "none", prompt_facts |-> NULL]
    /\ pc' = "classify"
    /\ served' = served + 1
    /\ UNCHANGED <<db, ret>>
    /\ HandlerFrame

\* line 5472
Classify ==
    /\ pc = "classify"
    /\ \E llm \in {"CASUAL", "DATA", "raise"} :
        pc' = IF is_casual_conversation(req.question, llm) THEN "casual" ELSE "context"
    /\ UNCHANGED <<db, ret, req, served>>
    /\ HandlerFrame

\* lines 5473-5495
CasualReply ==
    /\ pc = "casual"
    /\ LET casual_response == generate_casual_response(req.question, req.database)
           stored == PersistTurns(db, req.conversation_id, req.question, req.database,
                                  CasualTitleLen, casual_response, <<>>, "casual", NULL)
       IN  /\ db' = stored.db
           /\ ret' = [op |-> "ask", mode |-> "casual", markdown |-> casual_response,
                      charts |-> <<>>, conversation_id |-> stored.conversation_id]
    /\ pc' = "idle"
    /\ req' = NoReq
    /\ UNCHANGED served
    /\ HandlerFrame

\* what a write to the SQLite file does: it commits, or sqlite3 raises
StoreOutcomes == {"ok", "raises"}

AfterSaveAlwaysEvict(store) == "evict"

\* lines 5533-5536: an exception of save_summary leaves the try block, so the
\* deletion of line 5534 is reached only when the summary was committed
AfterSave(store) == IF store = "ok" THEN "evict" ELSE "history"

\* lines 5507-5532: the messages are counted and, above the threshold, the
\* oldest are read and summarised.  before is the store as the pass found it.
Summarize ==
    /\ pc = "context"
    /\ LET cid == req.conversation_id
           is_new_conversation == cid = NoConversation
           total == get_message_count(db, cid)
       IN  IF IdTruthy(cid) /\ ~is_new_conversation /\ total > CompactThreshold
           THEN \E summarizer \in {"bullets", "raise"} :
                   /\ req' = [req EXCEPT
                         !.before = db,
                         !.total = total,
                         !.oldest = get_oldest_messages(db, cid, CompactBatch),
                         !.summary_text = IF summarizer = "raise" THEN SummaryFallback
                                          ELSE summarizer,
                         !.compaction = "summarised"]
                   /\ pc' = "save_summary"
           ELSE /\ req' = [req EXCEPT
                         !.before = db,
                         !.total = IF IdTruthy(cid) THEN total ELSE 0,
                         !.compaction = "skipped"]
                /\ pc' = "history"
    /\ UNCHANGED <<db, ret, served>>
    /\ HandlerFrame

\* line 5533
PersistSummary ==
    /\ pc = "save_summary"
    /\ \E store \in StoreOutcomes :
          /\ db' = IF store = "ok"
                   THEN save_summary(db, req.conversation_id, req.summary_text)
                   ELSE db
          /\ req' = [req EXCEPT !.compaction = IF store = "ok" THEN "saved"
                                               ELSE "save_failed"]
          /\ pc' = AfterSave(store)
    /\ UNCHANGED <<ret, served>>
    /\ HandlerFrame

\* lines 5534-5536
EvictOldest ==
    /\ pc = "evict"
    /\ \E store \in StoreOutcomes :
          /\ db' = IF store = "ok"
                   THEN delete_messages_by_ids(db, req.conversation_id,
                            {req.oldest[i].id : i \in 1..Len(req.oldest)})
                   ELSE db
          /\ req' = [req EXCEPT !.compaction = IF store = "ok" THEN "evicted"
                                               ELSE "evict_failed"]
    /\ pc' = "history"
    /\ UNCHANGED <<ret, served>>
    /\ HandlerFrame

\* lines 5537-5558: the history text
BuildContext ==
    /\ pc = "history"
    /\ LET cid == req.conversation_id
           is_new_conversation == cid = NoConversation
       IN  req' = [req EXCEPT !.history_text =
                      IF IdTruthy(cid) /\ ~is_new_conversation
                      THEN HistoryText(db, cid) ELSE <<>>]
    /\ pc' = "generate"
    /\ UNCHANGED <<db, ret, served>>
    /\ HandlerFrame

\* lines 5561-5586: _invoke_with_history, and generate_chat_response when it
\* raises.  histories and priors list what each completion call and each
\* exploration call was handed.
Generate ==
    /\ pc = "generate"
    /\ LET cid == req.conversation_id
           is_new_conversation == cid = NoConversation
           final_history == IF is_new_conversation THEN <<>> ELSE req.history_text
           prior == PriorFactsPassed(db, req.question, req.database, cid)
       IN  \E path \in {"answered", "fallback", "failed"}, markdown \in GeneratedMarkdowns,
              error \in ErrorTexts \cup {""}, facts_text \in FactTexts :
             /\ path = "failed" => markdown = <<"txt">> /\ facts_text = "f1"
             /\ error = "" <=> path # "failed"
             /\ req' = [req EXCEPT
                   !.histories = IF path = "answered" THEN <<final_history>>
                                 ELSE <<final_history, <<>>>>,
                   !.priors = IF path = "answered" THEN prior ELSE prior \o prior,
                   !.chat_markdown = IF path = "failed"
                                     THEN FallbackMarkdown(req.question, error)
                                     ELSE StripBlanks(markdown),
                   !.generation = path,
                   !.error = error,
                   !.prompt_facts = IF path = "failed" THEN NULL ELSE facts_text]
    /\ pc' = "explore_for_storage"
    /\ UNCHANGED <<db, ret, served>>
    /\ HandlerFrame

\* lines 5589-5592: the exploration whose facts are stored
ExploreForStorage ==
    /\ pc = "explore_for_storage"
    /\ \E facts_text \in FactTexts :
        req' = [req EXCEPT
                  !.priors = @ \o PriorFactsPassed(db, req.question, req.database,
                                                   req.conversation_id),
                  !.facts_text = facts_text]
    /\ pc' = "persist"
    /\ UNCHANGED <<db, ret, served>>
    /\ HandlerFrame

\* lines 5594-5618: the charts are resolved, both turns stored, the answer sent
Persist ==
    /\ pc = "persist"
    /\ \E ocs \in [1..Len(FindAll(req.chat_markdown)) -> HandlerOutcomes] :
        \E rendered \in {extract_charts_from_markdown(req.chat_markdown, req.question, ocs)} :
        \E content \in {MarkdownText(rendered.markdown)} :
        \E stored \in {PersistTurns(db, req.conversation_id, req.question, req.database,
                                   ChatTitleLen, content, rendered.charts, "chat_style",
                                   req.facts_text)} :
            /\ db' = stored.db
            /\ ret' = [op |-> "ask", mode |-> "chat_style", markdown |-> content,
                       charts |-> rendered.charts,
                       conversation_id |-> stored.conversation_id]
    /\ pc' = "idle"
    /\ req' = NoReq
    /\ UNCHANGED served
    /\ HandlerFrame

\* a conversation that k casual requests have built (each earlier store is
\* bound once, as a value)
RECURSIVE CasualTurns(_, _)
CasualTurns(d, k) ==
    IF k = 0 THEN d
    ELSE LET q == Text("hi", 2)
             turn(prev) ==
                 PersistTurns(prev, IF k = 1 THEN NoConversation ELSE 1, q, "zigment",
                              CasualTitleLen, generate_casual_response(q, "zigment"),
                              <<>>, "casual", NULL).db
         IN  CHOOSE r \in {turn(prev) : prev \in {CasualTurns(d, k - 1)}} : TRUE

Init ==
    /\ db \in {EmptyDb, CasualTurns(EmptyDb, SeedTurns), CasualTurns(EmptyDb, SeedTurns + 1)}
    /\ ret = Idle
    /\ pc = "idle"
    /\ req = NoReq
    /\ served = 0
    /\ md = <<>>
    /\ out = NoOut
    /\ qtext = <<>>
    /\ sent = NoSent

Next ==
    \/ AskQuestion
    \/ Classify
    \/ CasualReply
    \/ Summarize
    \/ PersistSummary
    \/ EvictOldest
    \/ BuildContext
    \/ Generate
    \/ ExploreForStorage
    \/ Persist

Spec == Init /\ [][Next]_vars

(***************************************************************************)
(* Claims about the handler.                                               *)
(***************************************************************************)
HistoryBound == CompactThreshold + 2

\* C1: after any sequence of answer requests (casual replies or data answers)
\* the number of raw messages stored for a conversation never exceeds 12.
HistoryBounded ==
    \A cid \in RequestIds : get_message_count(db, cid) <= HistoryBound

Generated == pc \in {"explore_for_storage", "persist"}

\* C3: a data answer requested without a conversation id is handed an empty
\* history at every completion call and empty prior facts at every exploration
\* call, whatever the other conversations of the dataset hold.
NewConversationStartsFresh ==
    (Generated /\ ~IdTruthy(req.conversation_id)) =>
        /\ \A i \in 1..Len(req.histories) : req.histories[i] = <<>>
        /\ \A i \in 1..Len(req.priors) : req.priors[i] = <<>>

NewConversationWitness ==
    /\ pc = "persist"
    /\ req.conversation_id = NoConversation
    /\ req.histories = <<<<>>>>
    /\ req.priors = <<<<>>, <<>>>>
    /\ \E c \in ConvIdsOf(db) :
          /\ ConvRow(db, c).database_name = req.database
          /\ get_past_facts(db, req.database, PastFactsLimit, c) # <<>>
          /\ get_summaries(db, c) # <<>>
          /\ Len(get_history(db, c)) >= 2

(***************************************************************************)
(* normalize_query applied to a query text (SpecNormalize).  The texts are *)
(* built from parts, so that two LIMIT clauses, layers of quotes and a     *)
(* trailing ';' fit in a short text.                                       *)
(***************************************************************************)
QueryParts ==
    {<<Fence>>, <<"sql">>, <<"DQUOTE">>, <<"SELECT", Blank>>, <<"select">>,
     <<"LIMIT", Blank, "10">>, <<"LIMIT">>, <<"10">>, <<";">>, <<Blank>>, <<"x">>}

RECURSIVE PartTexts(_)
PartTexts(n) ==
    IF n = 0 THEN {<<>>}
    ELSE PartTexts(n - 1) \cup {q \o part : q \in PartTexts(n - 1), part \in QueryParts}

\* "select a from t" and "SELECT a FROM t LIMIT 10;", x standing for the
\* words that are no keyword
SelectFromText == <<"select", Blank, "a", Blank, "from", Blank, "t">>

SelectLimitSemicolonText ==
    <<"SELECT", Blank, "a", Blank, "FROM", Blank, "t", Blank, "LIMIT", Blank, "10", ";">>

NormalizeLimits == {10, 50}

NormalizeQuery ==
    /\ sent = NoSent
    /\ \E limit \in NormalizeLimits :
        sent' = [via |-> "normalize_query", cap |-> limit,
                 text |-> normalize_query(qtext, limit)]
    /\ QueryFrame

InitNormalize ==
    /\ qtext \in PartTexts(MaxParts) \cup {SelectFromText, SelectLimitSemicolonText}
    /\ sent = NoSent
    /\ db = EmptyDb
    /\ ret = Idle
    /\ pc = "idle"
    /\ req = NoReq
    /\ served = 0
    /\ md = <<>>
    /\ out = NoOut

NextNormalize == NormalizeQuery

SpecNormalize == InitNormalize /\ [][NextNormalize]_vars

(***************************************************************************)
(* Claims about normalize_query.                                           *)
(***************************************************************************)
Normalized == sent # NoSent /\ sent.via = "normalize_query"

\* C11: normalize is idempotent: normalize(normalize(q, n), n) = normalize(q, n),
\* also for a text wrapped in fences, a dialect tag or layers of quotes.
NormalizeIdempotent ==
    Normalized => normalize_query(sent.text, sent.cap) = sent.text

\* the LIMIT clauses of a text: the positions where \bLIMIT\s+\d+\b matches
LimitPositions(s) == {i \in 1..Len(s) : LimitAt(s, i)}

CountLimits(s) == Cardinality(LimitPositions(s))

\* the digits of the LIMIT clause that starts at token i
LimitBound(s, i) ==
    LET j == SkipBlanks(s, i + 1)
    IN  SubSeq(s, j, SkipDigits(s, j) - 1)

\* C12 as stated: a result that starts with SELECT holds exactly one LIMIT
\* clause, and its bound is n whenever the submitted text held no LIMIT clause.
ExactlyOneLimit ==
    (Normalized /\ StartsWithSelect(sent.text)) =>
        /\ CountLimits(sent.text) = 1
        /\ ~HasLimit(qtext) =>
             \A i \in LimitPositions(sent.text) :
                 LimitBound(sent.text, i) = <<ToString(sent.cap)>>

\* C12: a result that starts with SELECT holds at least one LIMIT clause; when
\* the cleaned text already held one, the result is the cleaned text with all
\* of its clauses; when it held none, the result holds exactly one clause and
\* its bound is n.
LimitClausePresent ==
    (Normalized /\ StartsWithSelect(sent.text)) =>
        LET cleaned == _strip_query_fences(qtext)
        IN  /\ CountLimits(sent.text) >= 1
            /\ HasLimit(cleaned) => sent.text = cleaned
            /\ ~HasLimit(cleaned) =>
                 /\ CountLimits(sent.text) = 1
                 /\ \A i \in LimitPositions(sent.text) :
                        LimitBound(sent.text, i) = <<ToString(sent.cap)>>

LimitClauseWitness ==
    /\ Normalized
    /\ qtext = SelectFromText
    /\ sent.cap = 10
    /\ sent.text = SelectFromText \o <<Blank, "LIMIT", Blank, "10">>

LimitClause(n) == <<Blank, "LIMIT", Blank, ToString(n)>>

\* the rule normalize_query is documented to follow, stated on the cleaned text
ReferenceNormalize(q, n) ==
    LET cleaned == _strip_query_fences(q)
    IN  IF HasLimit(cleaned) \/ ~StartsWithSelect(cleaned) THEN cleaned
        ELSE IF cleaned[Len(cleaned)] = ";"
             THEN SubSeq(cleaned, 1, Len(cleaned) - 1) \o LimitClause(n) \o <<";">>
             ELSE cleaned \o LimitClause(n)

\* C13: normalize(q, n) equals the reference rule: the cleaned text unchanged
\* when it holds a LIMIT clause or does not start with SELECT, else LIMIT n
\* inserted before a trailing ';' or appended; "select a from t" with 50 gives
\* "select a from t LIMIT 50" and "SELECT a FROM t LIMIT 10;" is unchanged.
NormalizeFollowsReference ==
    Normalized =>
        /\ sent.text = ReferenceNormalize(qtext, sent.cap)
        /\ (qtext = SelectFromText /\ sent.cap = 50) =>
               sent.text = <<"select", Blank, "a", Blank, "from", Blank, "t",
                             Blank, "LIMIT", Blank, "50">>
        /\ qtext = SelectLimitSemicolonText => sent.text = qtext

\* a SELECT with a trailing ';' and no LIMIT has been normalised
ReferenceWitness ==
    /\ Normalized
    /\ qtext = <<"SELECT", Blank, "x", ";">>
    /\ sent.cap = 50
    /\ sent.text = <<"SELECT", Blank, "x", Blank, "LIMIT", Blank, "50", ";">>

(***************************************************************************)
(* Exploration: explore_data_for_facts, run_deep_exploration and           *)
(* passive_exploration_fallback.  A fact is a record; the text of the      *)
(* result is the sequence of its lines and the allowed entities are the    *)
(* set of their lines.  An exception is the record Raised.                 *)
(***************************************************************************)
MaxQueries == 3

SchemaCollections == <<"contacts", "corecontacts", "contacttags", "events", "chathistories">>

Collections == Head_n(SchemaCollections, MaxCollections)

Fact(about, kind) == [about |-> about, kind |-> kind]

NoExplorationFacts == <<Fact("", "(no exploration facts)")>>

NoPrecomputedFacts == <<Fact("", "(no precomputed facts)")>>

NoneAllowed == {"(none)"}

\* what execute_noql_query does for one sample query
SampleOutcomes == {"rows", "no_rows", "reported_error", "raises"}

\* samples: the entries of the dict in insertion order; an entry is the list
\* of sampled rows ("rows") or the empty list ("empty"); a reported error
\* leaves no entry
RECURSIVE sample_database_tables(_, _)
sample_database_tables(collections, outcomes) ==
    IF collections = <<>> THEN <<>>
    ELSE LET name == Head(collections)
             outcome == outcomes[name]
             rest == sample_database_tables(Tail(collections), outcomes)
         IN  CASE outcome = "rows" -> <<[tname |-> name, info |-> "rows"]>> \o rest
               [] outcome \in {"no_rows", "raises"} ->
                      <<[tname |-> name, info |-> "empty"]>> \o rest
               [] OTHER -> rest

\* the loop over samples.items(): a non-empty list has no .get, and the
\* AttributeError leaves the loop with the facts gathered so far
RECURSIVE PassiveLoop(_)
PassiveLoop(samples) ==
    IF samples = <<>> THEN <<>>
    ELSE LET entry == Head(samples)
         IN  CASE entry.info = "error_dict" ->
                      <<Fact(entry.tname, "preview error")>> \o PassiveLoop(Tail(samples))
               [] entry.info = "rows" -> <<>>
               [] OTHER ->
                      <<Fact(entry.tname, "0 columns, 0 sample rows")>>
                          \o PassiveLoop(Tail(samples))

passive_exploration_fallback(outcomes) ==
    LET facts == PassiveLoop(sample_database_tables(Collections, outcomes))
    IN  [raised |-> FALSE,
         facts |-> IF facts # <<>> THEN facts ELSE NoPrecomputedFacts,
         allowed |-> NoneAllowed]

\* what run_query(clean_query, database_name, return_columns=True) hands back
\* for one probe: ok is FALSE when execute_noql_query raised or reported an
\* error, and then rows and columns are empty
ExecOutcomes == {"rows", "one_column", "empty", "scalar_rows", "reported_error", "raises"}

ExecFailed(outcome) == outcome \in {"reported_error", "raises"}

HasRows(outcome) == outcome \in {"rows", "one_column", "scalar_rows"}

IsRanking(purpose) == purpose = "top contacts"

\* the facts one executed probe appends
ProbeFacts(purpose, outcome) ==
    CASE outcome = "rows" ->
             <<Fact(purpose, "records found"), Fact(purpose, "top result")>>
                 \o (IF IsRanking(purpose) THEN <<Fact("", "Ranking methodology")>> ELSE <<>>)
      [] outcome = "one_column" ->
             <<Fact(purpose, "records found"), Fact(purpose, "no matching records")>>
      [] outcome = "scalar_rows" ->
             <<Fact(purpose, "records found"), Fact(purpose, "query error")>>
      [] OTHER -> <<>>

ProbeEntities(purpose, outcome) ==
    IF outcome \in {"rows", "one_column"} THEN {"alice"} ELSE {}

\* the loop over explorations[:max_queries]; an entry that is no object
\* raises out of the loop
RECURSIVE ProbeLoop(_, _, _)
ProbeLoop(explorations, outcomes, i) ==
    IF i > Len(explorations) THEN [raised |-> FALSE, facts |-> <<>>, allowed |-> {}]
    ELSE LET exploration == explorations[i]
         IN  IF exploration.shape # "object"
             THEN [raised |-> TRUE, facts |-> <<>>, allowed |-> {}]
             ELSE \* bind the rest once
                  CHOOSE r \in
                      {IF rest.raised THEN rest
                       ELSE IF ~exploration.sql THEN rest
                       ELSE [raised |-> FALSE,
                             facts |-> ProbeFacts(exploration.purpose, outcomes[i])
                                          \o rest.facts,
                             allowed |-> ProbeEntities(exploration.purpose, outcomes[i])
                                          \cup rest.allowed] :
                       rest \in {ProbeLoop(explorations, outcomes, i + 1)}} : TRUE

\* response: what the exploration completion answers
run_deep_exploration(response, outcomes, sample_outcomes) ==
    CASE response.kind \in {"raises", "invalid_json", "not_object"} ->
             passive_exploration_fallback(sample_outcomes)
      [] OTHER ->
             LET loop == ProbeLoop(Head_n(response.explorations, MaxQueries), outcomes, 1)
             IN  IF loop.raised THEN passive_exploration_fallback(sample_outcomes)
                 ELSE [raised |-> FALSE,
                       facts |-> IF loop.facts # <<>> THEN loop.facts
                                 ELSE NoExplorationFacts,
                       allowed |-> IF loop.allowed # {} THEN loop.allowed
                                   ELSE NoneAllowed]

UsesDeepExploration(question) ==
    Truthy(question) /\ Truthy(Strip(question)) /\ Strip(question).n > DeepExploreMinLen

explore_data_for_facts(question, response, outcomes, sample_outcomes) ==
    IF UsesDeepExploration(question)
    THEN run_deep_exploration(response, outcomes, sample_outcomes)
    ELSE passive_exploration_fallback(sample_outcomes)

ExploreQuestions ==
    {NullText, Empty, Text(" ", 1), Text("hi", 2), Text("sales", 5),
     Text("show contacts", 13)}

Purposes == {"count contacts", "top contacts"}

ExplorationEntries ==
    {[shape |-> "object", purpose |-> p, sql |-> b] : p \in Purposes, b \in BOOLEAN}
        \cup {[shape |-> "other", purpose |-> "", sql |-> FALSE]}

RECURSIVE EntrySeqs(_)
EntrySeqs(n) ==
    IF n = 0 THEN {<<>>}
    ELSE EntrySeqs(n - 1)
             \cup {Append(es, e) : es \in {x \in EntrySeqs(n - 1) : Len(x) = n - 1},
                                   e \in ExplorationEntries}

Responses ==
    {[kind |-> k, explorations |-> <<>>] : k \in {"raises", "invalid_json", "not_object"}}
        \cup {[kind |-> "object", explorations |-> es] : es \in EntrySeqs(MaxProbes)}

\* probe i reaches run_query
Executed(response, i) ==
    /\ response.kind = "object"
    /\ i <= Min(Len(response.explorations), MaxQueries)
    /\ \A j \in 1..i : response.explorations[j].shape = "object"
    /\ response.explorations[i].sql

\* the passive sampling runs
PassiveReached(question, response) ==
    \/ ~UsesDeepExploration(question)
    \/ response.kind # "object"
    \/ \E j \in 1..Min(Len(response.explorations), MaxQueries) :
           response.explorations[j].shape # "object"

ExploreFrame == UNCHANGED <<db, ret, pc, served, md, qtext, sent>>

\* one call of explore_data_for_facts; the collaborators that are not
\* consulted answer "none"
Explore ==
    /\ out = NoOut
    /\ \E question \in ExploreQuestions, response \in Responses,
          outcomes \in [1..MaxProbes -> ExecOutcomes \cup {"none"}],
          sample_outcomes \in [Range(Collections) -> SampleOutcomes \cup {"none"}] :
        /\ ~UsesDeepExploration(question) =>
               response = [kind |-> "raises", explorations |-> <<>>]
        /\ \A i \in 1..MaxProbes :
               outcomes[i] = "none" <=>
                   ~(UsesDeepExploration(question) /\ Executed(response, i))
        /\ \A c \in Range(Collections) :
               sample_outcomes[c] = "none" <=> ~PassiveReached(question, response)
        /\ req' = [stage |-> "explore", question |-> question, response |-> response,
                   outcomes |-> outcomes, sample_outcomes |-> sample_outcomes]
        /\ \E result \in {explore_data_for_facts(question, response, outcomes,
                                                 sample_outcomes)} :
               out' = [stage |-> "explored", raised |-> result.raised,
                       facts |-> result.facts, allowed |-> result.allowed]
    /\ ExploreFrame

InitExplore ==
    /\ db = EmptyDb /\ ret = Idle /\ pc = "idle" /\ req = NoReq /\ served = 0
    /\ md = <<>> /\ out = NoOut /\ qtext = <<>> /\ sent = NoSent

NextExplore == Explore

SpecExplore == InitExplore /\ [][NextExplore]_vars

Explored == out # NoOut /\ out.stage = "explored"

EmptyExploration ==
    /\ out.facts \in {NoExplorationFacts, NoPrecomputedFacts}
    /\ out.allowed = NoneAllowed

\* every collaborator that was consulted failed
EverythingFailed ==
    /\ UsesDeepExploration(req.question) => req.response.kind # "object"
    /\ \A c \in Range(Collections) : req.sample_outcomes[c] \in {"reported_error", "raises"}

\* C14: explore never raises to its caller, always returns facts and allowed
\* entities, and returns the empty facts / empty allowed value when every
\* collaborator fails.
ExploreNeverRaises ==
    Explored =>
        /\ ~out.raised
        /\ out.facts # <<>> /\ out.allowed # {}
        /\ EverythingFailed => EmptyExploration

\* the deep exploration ran its probes and returned their facts
DeepCompleted ==
    /\ Explored
    /\ UsesDeepExploration(req.question)
    /\ ~PassiveReached(req.question, req.response)

HasFact(about, kind) == \E k \in 1..Len(out.facts) : out.facts[k] = Fact(about, kind)

\* C15: in the deep path a probe whose execution fails leaves an error fact
\* for that probe, and the other probes still run and leave their own facts.
ProbeFailureRecorded ==
    DeepCompleted =>
        \A i \in 1..MaxProbes :
            Executed(req.response, i) =>
                /\ ExecFailed(req.outcomes[i]) =>
                       HasFact(req.response.explorations[i].purpose, "query error")
                /\ HasRows(req.outcomes[i]) =>
                       HasFact(req.response.explorations[i].purpose, "records found")

\* C16: in the passive path every sampled dataset leaves a fact (its counts or
\* an error record), whatever happened to the other datasets.
PassiveCoversEveryDataset ==
    (Explored /\ PassiveReached(req.question, req.response)) =>
        \A c \in Range(Collections) :
            \/ HasFact(c, "0 columns, 0 sample rows")
            \/ HasFact(c, "preview error")

(***************************************************************************)
(* Classification of single questions.                                     *)
(***************************************************************************)
\* the number of calls is_casual_conversation makes to the completion
CompletionCalls(question) ==
    IF ~Truthy(question) \/ ~Truthy(Strip(question)) THEN 0
    ELSE IF Strip(question).n < CasualMinLen THEN 0
    ELSE 1

ClassifyQuestions ==
    {NullText, Text("hi", 2)}
        \cup {Padded(Text(IF n = 0 THEN "" ELSE "q", n), l, r) :
                  n \in 0..MaxQuestionLen, l \in 0..MaxPad, r \in 0..MaxPad}

ClassifyQuestion ==
    /\ out = NoOut
    /\ \E question \in ClassifyQuestions, llm \in {"CASUAL", "DATA", "raise"} :
        /\ req' = [stage |-> "classify", question |-> question, llm |-> llm]
        /\ out' = [stage |-> "classified",
                   casual |-> is_casual_conversation(question, llm),
                   calls |-> CompletionCalls(question)]
    /\ UNCHANGED <<db, ret, pc, served, md, qtext, sent>>

InitClassify ==
    /\ db = EmptyDb /\ ret = Idle /\ pc = "idle" /\ req = NoReq /\ served = 0
    /\ md = <<>> /\ out = NoOut /\ qtext = <<>> /\ sent = NoSent

NextClassify == ClassifyQuestion

SpecClassify == InitClassify /\ [][NextClassify]_vars

Classified == out # NoOut /\ out.stage = "classified"

\* the length of the question once trimmed; 0 for a missing question
TrimmedLen(question) == IF question = NullText THEN 0 ELSE Strip(question).n

\* C17: a question whose trimmed length is below 3 (the empty question and
\* "hi" included) is classified as casual, whatever the completion would
\* answer, and without a call to the completion.
ShortQuestionsShortCircuit ==
    (Classified /\ TrimmedLen(req.question) < CasualMinLen) =>
        out.casual /\ out.calls = 0

ShortCircuitWitness ==
    /\ Classified
    /\ req.question = Text("hi", 2)
    /\ req.llm = "DATA"
    /\ out.casual
    /\ out.calls = 0

(***************************************************************************)
(* Claims about a failed generation (Spec).                                *)
(***************************************************************************)
\* the step that sends the answer of a data request
AnswerSent == pc = "persist" /\ pc' = "idle"

Answered == ret'.op = "ask" /\ ret'.mode = "chat_style"

FallbackText(question, error) ==
    Text("analysis " \o question.s \o " error details " \o error, 9)

ResponseFields == {"op", "mode", "markdown", "charts", "conversation_id"}

\* C19: the response of every answer (casual or data) carries markdown,
\* charts and conversation id and never the facts; only assistant messages
\* hold facts, and every user message is stored with no facts.
FactsStayInternal ==
    /\ ret # Idle =>
           /\ DOMAIN ret = ResponseFields
           /\ ret.markdown.s \notin FactTexts
    /\ \A i \in 1..Len(db.message) :
           /\ db.message[i].role \in {"user", "assistant"}
           /\ db.message[i].role = "user" => db.message[i].facts = NULL

\* a data answer has been sent and its assistant message holds the facts
FactsInternalWitness ==
    /\ ret # Idle
    /\ ret.mode = "chat_style"
    /\ \E i, j \in 1..Len(db.message) :
          /\ db.message[i].conversation_id = ret.conversation_id
          /\ db.message[i].role = "user"
          /\ db.message[i].facts = NULL
          /\ db.message[j].conversation_id = ret.conversation_id
          /\ db.message[j].role = "assistant"
          /\ db.message[j].facts \in FactTexts

(***************************************************************************)
(* format_data_for_chart_type applied to one result row (SpecFormat).      *)
(***************************************************************************)
FormatColumnNames == {"english", "spanish", "EnglishSpeaker"}

FormatCells == {"120", "80", "0", "None", "abc"}

FormatChartTypes == {"pie", "bar"}

FormatData ==
    /\ out = NoOut
    /\ out' = [stage |-> "formatted",
               data |-> format_data_for_chart_type(req.data, req.chart_type, req.columns,
                                                   0, req.value_col_idx)]
    /\ UNCHANGED <<db, ret, pc, req, served, md, qtext, sent>>

\* the numbers of rows around the cap of a chart type
RowCounts(chart_type) ==
    {max_items(chart_type) - 1, max_items(chart_type), max_items(chart_type) + 1}

\* n rows of w cells, row i labelled r<i>
LabelledRows(n, w) ==
    [i \in 1..n |-> SubSeq(<<"r" \o ToString(i), "120", "80">>, 1, w)]

\* one row of numbers, one more than a pie may hold
WideRow == [k \in 1..(PieCap + 1) |-> IF k = 2 THEN "80" ELSE "120"]

WideColumns == [k \in 1..(PieCap + 1) |-> IF k = 2 THEN "spanish" ELSE "english"]

\* the input: one row of k cells under k columns, or rows around the cap of
\* the chart type, or one wide row of numbers
InitFormat ==
    /\ \/ \E k \in 1..MaxColumns :
            \E t \in FormatChartTypes, cols \in [1..k -> FormatColumnNames],
               row \in [1..k -> FormatCells], v \in {-1, 1} :
                req = [stage |-> "format", chart_type |-> t, columns |-> cols,
                       data |-> <<row>>, value_col_idx |-> v]
       \/ \E t \in ChartTypes, w \in {2, 3} :
            \E n \in RowCounts(t), cols \in {<<>>, SubSeq(<<"english", "spanish", "EnglishSpeaker">>, 1, w)} :
                req = [stage |-> "format", chart_type |-> t, columns |-> cols,
                       data |-> LabelledRows(n, w), value_col_idx |-> -1]
       \/ \E t \in FormatChartTypes :
                req = [stage |-> "format", chart_type |-> t, columns |-> WideColumns,
                       data |-> <<WideRow>>, value_col_idx |-> -1]
    /\ db = EmptyDb /\ ret = Idle /\ pc = "idle" /\ served = 0
    /\ md = <<>> /\ out = NoOut /\ qtext = <<>> /\ sent = NoSent

NextFormat == FormatData

SpecFormat == InitFormat /\ [][NextFormat]_vars

Formatted == out # NoOut /\ out.stage = "formatted"

\* a pie over exactly one row whose cells are all numbers
SingleNumericRowPie ==
    /\ req.chart_type = "pie"
    /\ Len(req.data) = 1
    /\ \A k \in 1..Len(req.data[1]) : IsNumberLike(req.data[1][k])

\* C20 as stated: one slice per column, in column order, labelled with the
\* column name and valued with the cell.
PivotedPieOneSlicePerColumn ==
    (Formatted /\ SingleNumericRowPie) =>
        out.data = [k \in 1..Len(req.columns) |->
                       [label |-> req.columns[k], value |-> CellValue(req.data[1][k])]]

\* the slices of the columns whose cell is above 0, with the cleaned names
RECURSIVE PositiveSlices(_, _)
PositiveSlices(row, columns) ==
    IF columns = <<>> THEN <<>>
    ELSE (IF CellValue(Head(row)) > 0
          THEN <<[label |-> IF Head(columns) = "EnglishSpeaker" THEN "English"
                            ELSE Head(columns),
                  value |-> CellValue(Head(row))]>>
          ELSE <<>>)
             \o PositiveSlices(Tail(row), Tail(columns))

\* C20: a pie over one all-numeric row under at least two columns gives one
\* slice per column whose cell is above 0, in column order, labelled with the
\* column name less "Population" and "Speaker"; the row (120, 80) under
\* english, spanish gives the slices english 120 and spanish 80.
PivotedPiePositiveSlices ==
    (Formatted /\ SingleNumericRowPie /\ Len(req.columns) >= 2) =>
        /\ out.data = PositiveSlices(req.data[1], req.columns)
        /\ (req.data[1] = <<"120", "80">> /\ req.columns = <<"english", "spanish">>) =>
               out.data = <<[label |-> "english", value |-> 120],
                            [label |-> "spanish", value |-> 80]>>

\* a pivoted row with a zero cell and a cleaned label has been formatted
PivotedPieWitness ==
    /\ Formatted
    /\ req.chart_type = "pie"
    /\ req.columns = <<"EnglishSpeaker", "spanish", "english">>
    /\ req.data = <<<<"120", "0", "80">>>>
    /\ out.data = <<[label |-> "English", value |-> 120],
                    [label |-> "english", value |-> 80]>>


(***************************************************************************)
(* Claims about the compaction pass of a data answer (Spec).               *)
(***************************************************************************)
PassOver == pc = "history" /\ IdTruthy(req.conversation_id)

OtherRowsKept(cid) ==
    /\ SelectSeq(db.message, LAMBDA m : m.conversation_id # cid)
         = SelectSeq(req.before.message, LAMBDA m : m.conversation_id # cid)
    /\ SelectSeq(db.summary, LAMBDA x : x.conversation_id # cid)
         = SelectSeq(req.before.summary, LAMBDA x : x.conversation_id # cid)

\* one new summary with the text of the pass, the 10 oldest messages gone
Compacted ==
    LET cid == req.conversation_id
        was == get_history(req.before, cid)
        sums == get_summaries(db, cid)
    IN  /\ Len(sums) = Len(get_summaries(req.before, cid)) + 1
        /\ sums[Len(sums)].content = req.summary_text
        /\ get_message_count(db, cid) = req.total - CompactBatch
        /\ get_history(db, cid) = SubSeq(was, CompactBatch + 1, Len(was))
        /\ OtherRowsKept(cid)
        /\ db = Compact(req.before, cid, req.summary_text)

BlockSummarySaved ==
    \E i \in 1..Len(db.summary) :
        /\ db.summary[i].conversation_id = req.conversation_id
        /\ db.summary[i].id > req.before.nsum
        /\ db.summary[i].content = req.summary_text

MessagesRemoved == Range(db.message) \ Range(db'.message)

\* C22: a step that deletes messages happens only when the summary of their
\* block is already stored, and deletes only messages of that block; when the
\* save of the summary failed, the pass ends with every message still stored.
SummaryBeforeEviction ==
    [][/\ MessagesRemoved # {} =>
            /\ BlockSummarySaved
            /\ MessagesRemoved \subseteq Range(req.oldest)
       /\ (pc' = "history" /\ req'.compaction = "save_failed") =>
            db' = req'.before]_vars

SummaryBeforeEvictionWitness ==
    /\ PassOver
    /\ req.compaction = "evicted"
    /\ req.summary_text = "bullets"
    /\ req.total = CompactThreshold + 2
    /\ BlockSummarySaved
    /\ get_message_count(db, req.conversation_id) = 2


(***************************************************************************)
(* Claims about the history text of a data answer (Spec).                  *)
(***************************************************************************)
\* the lines of a history text that render raw messages
RawLines(h) == SelectSeq(h, LAMBDA l : l.role # "SUMMARY")

\* the lines of h render the messages with a content among the last 6 of
\* conversation cid, oldest first
IsRecentWindow(h, cid) ==
    LET msgs == get_history(db, cid)
        recent == SubSeq(msgs, Len(msgs) - Min(HistoryWindow, Len(msgs)) + 1, Len(msgs))
        shown == SelectSeq(recent, LAMBDA m : Strip(m.content_markdown).n > 0)
        raw == RawLines(h)
    IN  /\ Len(raw) <= HistoryWindow
        /\ Len(raw) = Len(shown)
        /\ \A i \in 1..Len(raw) :
              /\ shown[i].conversation_id = cid
              /\ raw[i].role = shown[i].role
              /\ raw[i].content = Strip(shown[i].content_markdown)
        /\ \A i \in 1..(Len(shown) - 1) : shown[i].id < shown[i + 1].id

\* C23: the history text handed to a generation call holds at most 6 raw
\* messages: the first call gets the most recent messages of the request's own
\* conversation, oldest first, whatever number of messages the conversation
\* holds; a further call gets none.
RecentHistoryWindow ==
    Generated =>
        /\ IF IdTruthy(req.conversation_id)
           THEN IsRecentWindow(req.histories[1], req.conversation_id)
           ELSE req.histories[1] = <<>>
        /\ \A i \in 2..Len(req.histories) : RawLines(req.histories[i]) = <<>>

RecentHistoryWitness ==
    /\ Generated
    /\ IdTruthy(req.conversation_id)
    /\ get_message_count(db, req.conversation_id) = CompactThreshold
    /\ Len(RawLines(req.histories[1])) = HistoryWindow
    /\ RawLines(req.histories[1])[1].role = "user"


(***************************************************************************)
(* Claims about the order and the number of the calls of a data answer     *)
(* (Spec).                                                                 *)
(***************************************************************************)
InRequest == pc # "idle" /\ pc' # "idle"

\* a step in which the result of an exploration call arrives
ExplorationArrives == InRequest /\ req'.facts_text # req.facts_text

\* a step that stores a turn
TurnStored == Len(db'.message) > Len(db.message)

\* C24: the stages of a data answer run in the order classification,
\* exploration, generation, chart resolution, persistence: no exploration
\* result arrives once the generation has produced the answer text, and a
\* turn is stored only by the step that has resolved the charts.
StagesInOrder ==
    [][/\ ExplorationArrives => req.generation = "none"
       /\ TurnStored => pc \in {"casual", "persist"}]_vars


\* the exploration calls of a request: one before each generation completion
\* call, and the one whose facts are stored
ExplorationCalls ==
    Len(req.histories) + (IF pc = "persist" THEN 1 ELSE 0)

\* C25: within one answer request no call is issued again: the generation
\* completion call is made once, also when it fails, and the exploration runs
\* once before it.
NoReissue ==
    Generated =>
        /\ Len(req.histories) = 1
        /\ req.generation # "answered" => ExplorationCalls = 1


(***************************************************************************)
(* Further claims about the store (SpecStore).                             *)
(***************************************************************************)
\* C26: add_message changes an existing conversation row only by the one-time
\* title backfill and the touch of updated_at: the dataset name and every other
\* field of every conversation, every stored message and every summary are
\* left as they were.
AddMessageFrame ==
    [][ret'.op = "add_message" =>
         /\ Len(db'.conversation) = Len(db.conversation)
         /\ \A i \in 1..Len(db.conversation) :
               LET old == db.conversation[i]
                   new == db'.conversation[i]
               IN  /\ new.id = old.id
                   /\ new.database_name = old.database_name
                   /\ old.id # ret'.cid => new = old
                   /\ new.title # old.title => old.title \in {NullText, DefaultTitle}
         /\ SubSeq(db'.message, 1, Len(db.message)) = db.message
         /\ Len(db'.message) = Len(db.message) + 1
         /\ db'.summary = db.summary]_vars


\* C29: every stored message and every stored summary refers to a
\* conversation that exists: an add_message or save_summary that carries an
\* unknown or deleted conversation id stores nothing.
EveryRowOwned ==
    /\ \A i \in 1..Len(db.message) : db.message[i].conversation_id \in ConvIdsOf(db)
    /\ \A i \in 1..Len(db.summary) : db.summary[i].conversation_id \in ConvIdsOf(db)


(***************************************************************************)
(* The facts stored with an answer (Spec).                                 *)
(***************************************************************************)
\* C30: the facts stored on the assistant message of a data answer are the
\* facts that were handed to the completion call that generated its text.
StoredFactsGroundAnswer ==
    [][(AnswerSent /\ req.generation # "failed") =>
          LET m == db'.message[Len(db'.message)]
          IN  /\ m.role = "assistant"
              /\ m.facts = req.prompt_facts]_vars


(***************************************************************************)
(* The caps of format_data_for_chart_type (SpecFormat).                    *)
(***************************************************************************)
\* the first part of the label of a record (a scatter record holds one text)
RecordLabel(r) == IF "x" \in DOMAIN r THEN r.label ELSE r.label[1]

\* C27: for the chart types pie, bar, line, scatter and table the number of
\* records never exceeds the cap of the type (6, 20, 50, 100, 50), and the
\* records are built from the first rows of the input, in their order.
FormatCapsRespected ==
    (Formatted /\ req.chart_type \in {"pie", "bar", "line", "scatter", "table"}) =>
        LET cap == CASE req.chart_type = "pie" -> 6
                     [] req.chart_type = "bar" -> 20
                     [] req.chart_type = "line" -> 50
                     [] req.chart_type = "scatter" -> 100
                     [] req.chart_type = "table" -> 50
        IN  /\ Len(out.data) <= cap
            /\ Len(req.data) > 1 =>
                 /\ Len(out.data) <= Len(req.data)
                 /\ \A i \in 1..Len(out.data) : RecordLabel(out.data[i]) = req.data[i][1]


(***************************************************************************)
(* Placeholders and chart records (SpecChart).                             *)
(***************************************************************************)
\* the positions of the placeholder of chart_id in a markdown
PlaceholderPositions(m, chart_id) == {p \in 1..Len(m) : m[p] = PlaceholderTok(chart_id)}

\* what stands for directive i in the returned markdown: the placeholder of
\* its chart record, or nothing when it has none
StandsFor(i) ==
    LET ks == {k \in 1..Len(out.rendered.charts) : out.rendered.charts[k].block = i}
    IN  IF ks = {} THEN <<>>
        ELSE <<PlaceholderTok(out.rendered.charts[CHOOSE k \in ks : TRUE].id)>>

\* the markdown m from position p on, with the i-th and later directives
\* replaced where they stand
RECURSIVE ReplacedInPlace(_, _, _)
ReplacedInPlace(m, p, i) ==
    IF p > Len(m) THEN <<>>
    ELSE LET e == IF p + 1 <= Len(m) /\ m[p] = Fence /\ IsTag(m[p + 1])
                  THEN NextFence(m, SkipBlanks(m, p + 2)) ELSE 0
         IN  IF e # 0 THEN StandsFor(i) \o ReplacedInPlace(m, e + 1, i + 1)
             ELSE <<m[p]>> \o ReplacedInPlace(m, p + 1, i)

\* C28: every returned chart has an id of its own, exactly one placeholder of
\* that id occurs in the returned markdown and it stands where the directive
\* stood, and every chart placeholder of the returned markdown names a
\* returned chart.
PlaceholdersMatchCharts ==
    Done =>
        LET m == out.rendered.markdown
            charts == out.rendered.charts
        IN  /\ \A k \in 1..Len(charts), l \in 1..Len(charts) :
                 k # l => charts[k].id # charts[l].id
            /\ \A k \in 1..Len(charts) :
                 Cardinality(PlaceholderPositions(m, charts[k].id)) = 1
            /\ m = ReplacedInPlace(md, 1, 1)
            /\ \A p \in 1..Len(m) :
                 (\E id \in (1..Len(md)) \cup {UnknownId} : m[p] = PlaceholderTok(id)) =>
                    \E k \in 1..Len(charts) : m[p] = PlaceholderTok(charts[k].id)

====
